---------------------------- MODULE Spec2Model ----------------------------
(***************************************************************************)
(* Seat allocation (allocate_seats) and row extraction                     *)
(* (parse_student_data) of src/app.py.                                     *)
(*                                                                         *)
(* A DataFrame is a sequence of rows.  A student row is the record         *)
(* [idx, Register_No, Subject_Code]: idx is the row's index label; Name    *)
(* and Subject_Name are copied verbatim into the result and read by no     *)
(* condition, so they are not carried.  A text that the program takes      *)
(* apart (a Student or Course cell, a layout cell) is a sequence of        *)
(* one-character or atomic strings.                                        *)
(***************************************************************************)
EXTENDS Integers, Sequences, FiniteSets, TLC

(***************************************************************************)
(* Bounds of the general specification.                                    *)
(***************************************************************************)
MaxStudents == 4
MaxHalls == 2
MaxCapacity == 3

\* Subject codes the pools are drawn from.
Subjects == {"CST448", "CST402"}

VARIABLES
    pc,                 \* position in the program
    full_data,          \* argument students_df of allocate_seats (the caller's pool)
    halls_df,           \* argument halls_df: rows [Hall_Name, Capacity]
    students_df,        \* local students_df: the shuffled, progressively depleted pool
    allocation_results, \* rows [Hall, Seat_No, Register_No, Subject_Code]
    hall_visuals,       \* dict Hall_Name -> layout
    total_students,
    base_fill,
    h,                  \* position of the for loop over halls_df (1-based)
    limit,
    hall_layout,
    previous_subject,   \* <<>> is None, <<c>> is the code c
    filled_count,
    seats_checked,
    undrawn,            \* sample(frac=1): the rows not drawn yet, as a bag
    sampled,            \* sample(frac=1): the rows drawn so far, in order
    df_rows,            \* parse_student_data: the rows [Student, Course] of df
    index,              \* parse_student_data: position of the loop of line 66
    cleaned_data        \* parse_student_data: rows appended so far

allocVars == <<full_data, halls_df, students_df, allocation_results, hall_visuals,
               total_students, base_fill, h, limit, hall_layout, previous_subject,
               filled_count, seats_checked>>
sampleVars == <<undrawn, sampled>>
parseVars == <<df_rows, index, cleaned_data>>
vars == <<pc, allocVars, sampleVars, parseVars>>

(***************************************************************************)
(* Helpers                                                                 *)
(***************************************************************************)
Min(a, b) == IF a <= b THEN a ELSE b

\* Python's None for previous_subject.
None == <<>>

\* Register numbers "R1", "R2", ...
RegNo(i) == "R" \o ToString(i)

\* "Hall 1", "Hall 2", ... (line 230)
HallName(i) == "Hall " \o ToString(i)

\* A student row of a frame.
Row(i, reg, code) == [idx |-> i, Register_No |-> reg, Subject_Code |-> code]

\* The rows of a frame as a bag, labels dropped: row content -> multiplicity.
Content(r) == <<r.Register_No, r.Subject_Code>>
RowBag(df) ==
    [c \in {Content(df[i]) : i \in 1..Len(df)} |->
        Cardinality({i \in 1..Len(df) : Content(df[i]) = c})]

BagTake(b, c) ==
    IF b[c] = 1 THEN [d \in DOMAIN b \ {c} |-> b[d]]
    ELSE [b EXCEPT ![c] = @ - 1]

\* reset_index(drop=True): the rows in their new order, labelled 0..n-1.
ResetIndex(contents) ==
    [i \in 1..Len(contents) |-> Row(i - 1, contents[i][1], contents[i][2])]

\* Variant of BaseFill that divides by one hall too many.
BaseFillOneMore(n, r) == IF r > 0 THEN n \div (r + 1) ELSE 0

\* base_fill (lines 119-122)
BaseFill(n, r) == IF r > 0 THEN n \div r ELSE 0

\* int(base_fill * 1.2) (line 129).  In IEEE double arithmetic
\* int(k * 1.2) = floor(6k / 5) for every k < 200000.
TargetFill(bf) == (bf * 6) \div 5

\* Variant of Limit that forgets the room's capacity.
LimitUncapped(capacity, bf) == TargetFill(bf)

\* limit = min(capacity, target_fill) (line 130)
Limit(capacity, bf) == Min(capacity, TargetFill(bf))

\* Layout cells: f"{Register_No}\n{Subject_Code}" (line 159) and "EMPTY" (line 169).
Cell(student) == <<student.Register_No, "\n", student.Subject_Code>>
EMPTY == <<"EMPTY">>

\* The for loop of lines 145-165: position of the first row whose code
\* differs from previous_subject, 0 when there is none.
AdmissibleAny(student, prev) == TRUE
Admissible(student, prev) == <<student.Subject_Code>> # prev
Candidate(df, prev) ==
    IF \E i \in 1..Len(df) : Admissible(df[i], prev)
    THEN CHOOSE i \in 1..Len(df) :
            /\ Admissible(df[i], prev)
            /\ \A j \in 1..(i - 1) : ~Admissible(df[j], prev)
    ELSE 0

\* Variant of Drop that leaves the seated student in the pool.
DropNothing(df, label) == df

\* students_df.drop(idx) (line 162)
Drop(df, label) == SelectSeq(df, LAMBDA r : r.idx # label)

\* Variant of SeatNo that numbers seats from 0.
SeatNoZeroBased(fc) == fc

\* Seat_No of a new assignment (line 151)
SeatNo(fc) == fc + 1

\* while condition (line 138) and the guard of line 140
LoopCond == filled_count < limit /\ students_df # <<>>
CapHitDivided(checked, lim) == checked > lim \div 3
CapHit(checked, lim) == checked > lim * 3

(***************************************************************************)
(* Inputs                                                                  *)
(***************************************************************************)
\* Pools of n rows: row i carries register number Ri; codes are grouped
\* (the shuffle erases the input order).
Pools(n) ==
    { [i \in 1..n |-> Row(i - 1, RegNo(i), cs[i])] :
        cs \in { f \in [1..n -> Subjects] :
                    \A i \in 1..n, j \in 1..n : i < j /\ f[i] # f[j] =>
                        \A k \in j..n : f[k] # f[i] } }

HallLists(r) ==
    { [i \in 1..r |-> [Hall_Name |-> HallName(i), Capacity |-> caps[i]]] :
        caps \in [1..r -> 1..MaxCapacity] }

AllocStart(pool, halls) ==
    /\ pc = "shuffle"
    /\ full_data = pool
    /\ halls_df = halls
    /\ students_df = pool
    /\ allocation_results = <<>>
    /\ hall_visuals = <<>>
    /\ total_students = 0
    /\ base_fill = 0
    /\ h = 0
    /\ limit = 0
    /\ hall_layout = <<>>
    /\ previous_subject = None
    /\ filled_count = 0
    /\ seats_checked = 0
    /\ undrawn = RowBag(pool)
    /\ sampled = <<>>
    /\ df_rows = <<>>
    /\ index = 0
    /\ cleaned_data = <<>>

Init ==
    \E n \in 0..MaxStudents, r \in 0..MaxHalls :
        \E pool \in Pools(n), halls \in HallLists(r) : AllocStart(pool, halls)

\* Five students of one subject code, one room of capacity 5.
ForcedCodes == <<"CST448", "CST448", "CST448", "CST448", "CST448">>
ForcedPool == [i \in 1..Len(ForcedCodes) |-> Row(i - 1, RegNo(i), ForcedCodes[i])]
ForcedHalls == <<[Hall_Name |-> HallName(1), Capacity |-> 5]>>
InitForced == AllocStart(ForcedPool, ForcedHalls)

\* Twelve students, three of each of four subject codes, two rooms of
\* capacity 6.  The rows carry the register number "N/A" (line 86): rows of
\* one subject are then equal, and the shuffles are the orders of the codes.
E2ECodes == <<"CST402", "CST402", "CST402", "CST404", "CST404", "CST404",
              "CST446", "CST446", "CST446", "CST448", "CST448", "CST448">>
E2EPool == [i \in 1..Len(E2ECodes) |-> Row(i - 1, "N/A", E2ECodes[i])]
E2EHalls == <<[Hall_Name |-> HallName(1), Capacity |-> 6],
              [Hall_Name |-> HallName(2), Capacity |-> 6]>>
InitE2E == AllocStart(E2EPool, E2EHalls)

(***************************************************************************)
(* allocate_seats                                                          *)
(***************************************************************************)
\* Line 110, sample(frac=1): one draw without replacement among the rows
\* not drawn yet.
SampleDraw ==
    /\ pc = "shuffle"
    /\ \E c \in DOMAIN undrawn :
        /\ sampled' = Append(sampled, c)
        /\ undrawn' = BagTake(undrawn, c)
    /\ UNCHANGED <<pc, allocVars, parseVars>>

\* Lines 110-122: every row is drawn; reset_index, empty results, base_fill.
Shuffled ==
    /\ pc = "shuffle"
    /\ DOMAIN undrawn = {}
    /\ students_df' = ResetIndex(sampled)
    /\ sampled' = <<>>
    /\ allocation_results' = <<>>
    /\ hall_visuals' = <<>>
    /\ total_students' = Len(students_df')
    /\ base_fill' = BaseFill(total_students', Len(halls_df))
    /\ h' = 1
    /\ pc' = "hall"
    /\ UNCHANGED <<full_data, halls_df, limit, hall_layout, previous_subject,
                   filled_count, seats_checked, undrawn, parseVars>>

\* Lines 124-137: the next hall of the for loop.
BeginHall ==
    /\ pc = "hall"
    /\ h <= Len(halls_df)
    /\ limit' = Limit(halls_df[h].Capacity, base_fill)
    /\ hall_layout' = <<>>
    /\ previous_subject' = None
    /\ filled_count' = 0
    /\ seats_checked' = 0
    /\ pc' = "fill"
    /\ UNCHANGED <<full_data, halls_df, students_df, allocation_results, hall_visuals,
                   total_students, base_fill, h, sampleVars, parseVars>>

\* Lines 138-165: one iteration of the while loop that finds a student.
SeatStudent ==
    /\ pc = "fill"
    /\ LoopCond
    /\ ~CapHit(seats_checked + 1, limit)
    /\ Candidate(students_df, previous_subject) # 0
    /\ LET student == students_df[Candidate(students_df, previous_subject)] IN
        /\ allocation_results' = Append(allocation_results,
                [Hall |-> halls_df[h].Hall_Name,
                 Seat_No |-> SeatNo(filled_count),
                 Register_No |-> student.Register_No,
                 Subject_Code |-> student.Subject_Code])
        /\ hall_layout' = Append(hall_layout, Cell(student))
        /\ previous_subject' = <<student.Subject_Code>>
        /\ students_df' = Drop(students_df, student.idx)
    /\ filled_count' = filled_count + 1
    /\ seats_checked' = seats_checked + 1
    /\ UNCHANGED <<pc, full_data, halls_df, hall_visuals, total_students, base_fill,
                   h, limit, sampleVars, parseVars>>

\* Variant of LeaveEmpty without the fallback of lines 167-171.
LeaveEmptyNoFallback ==
    /\ pc = "fill"
    /\ LoopCond
    /\ ~CapHit(seats_checked + 1, limit)
    /\ Candidate(students_df, previous_subject) = 0
    /\ seats_checked' = seats_checked + 1
    /\ UNCHANGED <<pc, full_data, halls_df, students_df, allocation_results,
                   hall_visuals, total_students, base_fill, h, limit, hall_layout,
                   previous_subject, filled_count, sampleVars, parseVars>>

\* Variant of LeaveEmpty that keeps previous_subject (line 170 missing).
LeaveEmptyKeepPrevious ==
    /\ pc = "fill"
    /\ LoopCond
    /\ ~CapHit(seats_checked + 1, limit)
    /\ Candidate(students_df, previous_subject) = 0
    /\ hall_layout' = Append(hall_layout, EMPTY)
    /\ filled_count' = filled_count + 1
    /\ seats_checked' = seats_checked + 1
    /\ UNCHANGED <<pc, full_data, halls_df, students_df, allocation_results,
                   hall_visuals, total_students, base_fill, h, limit,
                   previous_subject, sampleVars, parseVars>>

\* Lines 138-145, 167-171: one iteration that finds no student.
LeaveEmpty ==
    /\ pc = "fill"
    /\ LoopCond
    /\ ~CapHit(seats_checked + 1, limit)
    /\ Candidate(students_df, previous_subject) = 0
    /\ IF students_df # <<>>
       THEN /\ hall_layout' = Append(hall_layout, EMPTY)
            /\ previous_subject' = None
            /\ filled_count' = filled_count + 1
       ELSE UNCHANGED <<hall_layout, previous_subject, filled_count>>
    /\ seats_checked' = seats_checked + 1
    /\ UNCHANGED <<pc, full_data, halls_df, students_df, allocation_results,
                   hall_visuals, total_students, base_fill, h, limit, sampleVars, parseVars>>

\* Variant of EndHall that stores only a layout with cells in it.
EndHallSkipEmpty ==
    /\ pc = "fill"
    /\ (~LoopCond \/ CapHit(seats_checked + 1, limit))
    /\ seats_checked' = IF LoopCond THEN seats_checked + 1 ELSE seats_checked
    /\ hall_visuals' =
            IF hall_layout = <<>> THEN hall_visuals
            ELSE [n \in DOMAIN hall_visuals \cup {halls_df[h].Hall_Name} |->
                    IF n = halls_df[h].Hall_Name THEN hall_layout ELSE hall_visuals[n]]
    /\ h' = h + 1
    /\ pc' = "hall"
    /\ UNCHANGED <<full_data, halls_df, students_df, allocation_results,
                   total_students, base_fill, limit, hall_layout, previous_subject,
                   filled_count, sampleVars, parseVars>>

\* Line 173, reached when the while condition fails or by the break of line 140.
EndHall ==
    /\ pc = "fill"
    /\ (~LoopCond \/ CapHit(seats_checked + 1, limit))
    /\ seats_checked' = IF LoopCond THEN seats_checked + 1 ELSE seats_checked
    /\ hall_visuals' =
            [n \in DOMAIN hall_visuals \cup {halls_df[h].Hall_Name} |->
                IF n = halls_df[h].Hall_Name THEN hall_layout ELSE hall_visuals[n]]
    /\ h' = h + 1
    /\ pc' = "hall"
    /\ UNCHANGED <<full_data, halls_df, students_df, allocation_results,
                   total_students, base_fill, limit, hall_layout, previous_subject,
                   filled_count, sampleVars, parseVars>>

\* Lines 175-181: the for loop is over; leftover students are not placed.
Return ==
    /\ pc = "hall"
    /\ h > Len(halls_df)
    /\ pc' = "done"
    /\ UNCHANGED <<allocVars, sampleVars, parseVars>>

Next == SampleDraw \/ Shuffled \/ BeginHall \/ SeatStudent \/ LeaveEmpty \/ EndHall \/ Return

Spec == Init /\ [][Next]_vars
SpecForced == InitForced /\ [][Next]_vars
SpecE2E == InitE2E /\ [][Next]_vars

(***************************************************************************)
(* parse_student_data, lines 64-103: the extraction loop over the rows of  *)
(* a frame whose columns are already Student and Course.  A cell text is a *)
(* sequence of characters.                                                 *)
(***************************************************************************)
ParseMaxRows == 2

\* A character is a string.  A character that a string of a module cannot
\* hold is written by the name of its code point: "U+00A0" is the one
\* character NO-BREAK SPACE.
\*
\* The 29 characters str.strip() removes (str.isspace): the ASCII whitespace
\* U+0009-U+000D, U+001C-U+001F and U+0020, then U+0085, U+00A0, U+1680,
\* U+2000-U+200A, U+2028, U+2029, U+202F, U+205F and U+3000.
Whitespace ==
    {" ", "\t", "\n", "\r", "\f", "", "", "", "", "",
     "U+0085", "U+00A0", "U+1680", "U+2000", "U+2001", "U+2002", "U+2003",
     "U+2004", "U+2005", "U+2006", "U+2007", "U+2008", "U+2009", "U+200A",
     "U+2028", "U+2029", "U+202F", "U+205F", "U+3000"}
IsSpace(ch) == ch \in Whitespace

\* str.strip()
RECURSIVE LStrip(_)
LStrip(t) == IF t # <<>> /\ IsSpace(Head(t)) THEN LStrip(Tail(t)) ELSE t
RECURSIVE RStrip(_)
RStrip(t) ==
    IF t # <<>> /\ IsSpace(t[Len(t)]) THEN RStrip(SubSeq(t, 1, Len(t) - 1)) ELSE t
Strip(t) == RStrip(LStrip(t))

\* str.replace(old, ""), old not empty: the occurrences of old, left to
\* right and not overlapping, are removed.
RECURSIVE Remove(_, _)
Remove(t, old) ==
    IF Len(t) < Len(old) THEN t
    ELSE IF SubSeq(t, 1, Len(old)) = old
         THEN Remove(SubSeq(t, Len(old) + 1, Len(t)), old)
         ELSE <<Head(t)>> \o Remove(Tail(t), old)

\* "." of a pattern: any character but the newline.
IsDot(ch) == ch # "\n"

\* re.search(r"(.*)\((.*)\)", t) (line 75).  A "(" can open a match when a
\* ")" follows it with no newline between them.  The match starts as far
\* left as any can, at the start of the line of the first such "("; group 1
\* is greedy, so the "(" taken is the last such one of that line; group 2 is
\* greedy, so the ")" is the last one it can reach without a newline.
\* <<>> is no match, <<s, i, j>> the start of the match and the positions
\* of the two parentheses.
StudentMatch(t) ==
    LET Dots(a, b) == \A k \in a..b : IsDot(t[k])
        opens == {i \in 1..Len(t) :
                    t[i] = "(" /\ \E j \in (i + 1)..Len(t) :
                                    t[j] = ")" /\ Dots(i + 1, j - 1)}
    IN  IF opens = {} THEN <<>>
        ELSE LET first == CHOOSE a \in opens : \A b \in opens : a <= b
                 s == CHOOSE a \in 1..first :
                        Dots(a, first - 1) /\ (a = 1 \/ ~IsDot(t[a - 1]))
                 i == CHOOSE a \in opens :
                        Dots(s, a - 1) /\ \A b \in opens : Dots(s, b - 1) => b <= a
                 j == CHOOSE a \in (i + 1)..Len(t) :
                        /\ t[a] = ")" /\ Dots(i + 1, a - 1)
                        /\ \A b \in (a + 1)..Len(t) :
                              ~(t[b] = ")" /\ Dots(i + 1, b - 1))
             IN  <<s, i, j>>

\* re.search(r"\(([^)]+)\)$", t) (line 79): the leftmost "(" followed by at
\* least one character other than ")" and then by a ")" at which "$"
\* matches: at the end of t, or right before a newline that ends t.
\* <<>> is no match, <<i, k>> the positions of the two parentheses.
CourseMatch(t) ==
    LET ends == {k \in 1..Len(t) :
                    /\ t[k] = ")"
                    /\ (k = Len(t) \/ (k = Len(t) - 1 /\ t[Len(t)] = "\n"))}
        starts == {i \in 1..Len(t) :
                    /\ t[i] = "("
                    /\ \E k \in ends :
                          i + 2 <= k /\ \A j \in (i + 1)..(k - 1) : t[j] # ")"}
    IN  IF starts = {} THEN <<>>
        ELSE <<CHOOSE a \in starts : \A b \in starts : a <= b,
               CHOOSE k \in ends : TRUE>>

NotAvailable == <<"N", "/", "A">>

\* Lines 81-86
ParsedName(raw_student) ==
    LET m == StudentMatch(raw_student)
    IN  IF m # <<>> THEN Strip(SubSeq(raw_student, m[1], m[2] - 1)) ELSE raw_student
ParsedRegNo(raw_student) ==
    LET m == StudentMatch(raw_student)
    IN  IF m # <<>> THEN Strip(SubSeq(raw_student, m[2] + 1, m[3] - 1))
        ELSE NotAvailable

\* Lines 88-94
ParsedCode(raw_course) ==
    LET t == Strip(raw_course)
        m == CourseMatch(t)
    IN  IF m # <<>> THEN Strip(SubSeq(t, m[1] + 1, m[2] - 1)) ELSE raw_course
ParsedSubject(raw_course) ==
    LET m == CourseMatch(Strip(raw_course))
    IN  IF m # <<>>
        THEN Strip(Remove(Remove(raw_course, <<"(">> \o ParsedCode(raw_course) \o <<")">>),
                          <<"(", ")">>))
        ELSE raw_course

\* Line 71
IsBlankStudent(raw_student) == raw_student = <<"n", "a", "n">> \/ raw_student = <<>>

\* The Course cell of the comment of line 77.
SampleCourse ==
    <<"I", "N", "T", "E", "R", "N", "E", "T", " ", "O", "F", " ", "T", "H",
      "I", "N", "G", "S", " ", "(", " ", "C", "S", "T", "4", "4", "8", " ",
      ")">>
SampleCode ==
    <<"C", "S", "T", "4", "4", "8">>
SampleName ==
    <<"I", "N", "T", "E", "R", "N", "E", "T", " ", "O", "F", " ", "T", "H",
      "I", "N", "G", "S">>

\* Cell texts the frames are drawn from.
CourseAlphabet == {"A", " ", "\t", "(", ")"}
StudentTexts ==
    {<<>>, <<"n", "a", "n">>, <<"A", "B">>, <<"A", " ", "(", "B", ")">>,
     <<"\t", "A", "(", "B", ")", "\t">>, <<"A", "\n", "B", "(", "C", ")">>,
     <<"A", "(", "B", "\n", "C", ")">>,
     <<"U+00A0", "A", "(", "U+00A0", "B", ")">>}
CourseTexts ==
    {SampleCourse, <<"A", "(", "B", ")">>, <<"A", " ", "(", " ", "B", " ", ")">>,
     <<"A", " ", "(", "\t", "B", "\t", ")">>, <<"A", "(", "B", ")", "\n">>,
     <<"A", " ", "(", "U+00A0", "B", "U+00A0", ")">>,
     <<"A", "(", "B", ")", "U+00A0">>, <<"U+3000", "A", "(", "U+0085", "B", ")">>}
        \cup UNION {[1..n -> CourseAlphabet] : n \in 0..2}
FrameRows == {[Student |-> st, Course |-> co] : st \in StudentTexts, co \in CourseTexts}

InitParse ==
    /\ pc = "rows"
    /\ \E n \in 1..ParseMaxRows : df_rows \in [1..n -> FrameRows]
    /\ index = 1
    /\ cleaned_data = <<>>
    /\ full_data = <<>>
    /\ halls_df = <<>>
    /\ students_df = <<>>
    /\ allocation_results = <<>>
    /\ hall_visuals = <<>>
    /\ total_students = 0
    /\ base_fill = 0
    /\ h = 0
    /\ limit = 0
    /\ hall_layout = <<>>
    /\ previous_subject = None
    /\ filled_count = 0
    /\ seats_checked = 0
    /\ undrawn = <<>>
    /\ sampled = <<>>

\* Lines 66-72: a row whose Student cell is blank is skipped.
SkipRow ==
    /\ pc = "rows"
    /\ index <= Len(df_rows)
    /\ IsBlankStudent(df_rows[index].Student)
    /\ index' = index + 1
    /\ UNCHANGED <<pc, df_rows, cleaned_data, allocVars, sampleVars>>

\* Lines 66-101: a row is taken apart and appended.
ParseRow ==
    /\ pc = "rows"
    /\ index <= Len(df_rows)
    /\ ~IsBlankStudent(df_rows[index].Student)
    /\ cleaned_data' = Append(cleaned_data,
            [Name |-> ParsedName(df_rows[index].Student),
             Register_No |-> ParsedRegNo(df_rows[index].Student),
             Subject_Name |-> ParsedSubject(df_rows[index].Course),
             Subject_Code |-> ParsedCode(df_rows[index].Course)])
    /\ index' = index + 1
    /\ UNCHANGED <<pc, df_rows, allocVars, sampleVars>>

\* Line 103
ParseReturn ==
    /\ pc = "rows"
    /\ index > Len(df_rows)
    /\ pc' = "parsed"
    /\ UNCHANGED <<parseVars, allocVars, sampleVars>>

NextParse == SkipRow \/ ParseRow \/ ParseReturn

SpecParse == InitParse /\ [][NextParse]_vars

(***************************************************************************)
(* Vocabulary of the properties                                            *)
(***************************************************************************)
\* The cells of a layout that hold a student, and the code such a cell shows.
IsStudent(cell) == cell # EMPTY
CellCode(cell) == cell[3]
StudentCells(layout) == {p \in 1..Len(layout) : IsStudent(layout[p])}

\* Halls whose layout has been stored, by position in halls_df.
Stored == IF pc = "shuffle" THEN {} ELSE 1..(h - 1)
LayoutOf(i) == hall_visuals[halls_df[i].Hall_Name]

\* The assignments of hall i, as positions in allocation_results.
AssignmentsOf(i) ==
    {a \in 1..Len(allocation_results) :
        allocation_results[a].Hall = halls_df[i].Hall_Name}
SeatNosOf(i) == {allocation_results[a].Seat_No : a \in AssignmentsOf(i)}

\* min(Capacity, floor(floor(N / R) * 1.2)) from the original pool size N and
\* the number of rooms R, for a room of capacity cap.
FairLimit(cap) ==
    IF Len(halls_df) = 0 THEN 0
    ELSE Min(cap, ((Len(full_data) \div Len(halls_df)) * 12) \div 10)

NoAdjacentSame(layout) ==
    \A p \in 1..(Len(layout) - 1) :
        IsStudent(layout[p]) /\ IsStudent(layout[p + 1])
            => CellCode(layout[p]) # CellCode(layout[p + 1])

(***************************************************************************)
(* C1: in the layout being filled and in every stored layout, any two      *)
(* consecutive cells that both hold a student show different subject       *)
(* codes; as an invariant it holds after every append.                     *)
(***************************************************************************)
C1_Adjacency ==
    /\ NoAdjacentSame(hall_layout)
    /\ \A i \in Stored : NoAdjacentSame(LayoutOf(i))

\* A finished run with a layout that has two students side by side and a
\* forced EMPTY cell.
C1_Witness ==
    /\ pc = "done"
    /\ \E i \in Stored :
        /\ \E p \in 1..(Len(LayoutOf(i)) - 1) :
              IsStudent(LayoutOf(i)[p]) /\ IsStudent(LayoutOf(i)[p + 1])
        /\ \E p \in 1..Len(LayoutOf(i)) : ~IsStudent(LayoutOf(i)[p])

(***************************************************************************)
(* C2 as claimed: when allocate_seats returns, the Seat_No values of each  *)
(* room are exactly 1..k, without repeats, k the number of student cells   *)
(* of the room's layout.                                                   *)
(***************************************************************************)
C2_DenseSeatNumbers ==
    pc = "done" =>
        \A i \in Stored :
            /\ SeatNosOf(i) = 1..Cardinality(StudentCells(LayoutOf(i)))
            /\ Cardinality(AssignmentsOf(i)) = Cardinality(StudentCells(LayoutOf(i)))

(***************************************************************************)
(* C2 amended: the Seat_No values of each room are exactly the 1-based     *)
(* layout positions of its student cells, without repeats, and the cell at *)
(* position Seat_No is the cell of that assignment.                        *)
(***************************************************************************)
C2_SeatNoIsLayoutPosition ==
    \A i \in Stored :
        /\ SeatNosOf(i) = StudentCells(LayoutOf(i))
        /\ Cardinality(AssignmentsOf(i)) = Cardinality(StudentCells(LayoutOf(i)))
        /\ \A a \in AssignmentsOf(i) :
              LayoutOf(i)[allocation_results[a].Seat_No] = Cell(allocation_results[a])

\* A finished run in which a student is seated right after a forced EMPTY cell.
C2_Witness ==
    /\ pc = "done"
    /\ \E i \in Stored :
        \E p \in 2..Len(LayoutOf(i)) :
            ~IsStudent(LayoutOf(i)[p - 1]) /\ IsStudent(LayoutOf(i)[p])

(***************************************************************************)
(* C3: every student of the pool (register numbers are unique in the       *)
(* pools drawn) is in at most one assignment, a seated student is no       *)
(* longer in the pool, and every assignment is a student of the pool.      *)
(***************************************************************************)
C3_Injective ==
    /\ \A a, b \in 1..Len(allocation_results) :
          a # b => allocation_results[a].Register_No # allocation_results[b].Register_No
    /\ \A a \in 1..Len(allocation_results), i \in 1..Len(students_df) :
          allocation_results[a].Register_No # students_df[i].Register_No
    /\ \A a \in 1..Len(allocation_results) :
          \E i \in 1..Len(full_data) :
              /\ full_data[i].Register_No = allocation_results[a].Register_No
              /\ full_data[i].Subject_Code = allocation_results[a].Subject_Code

\* A finished run that seated students in two rooms.
C3_Witness ==
    /\ pc = "done"
    /\ \E a, b \in 1..Len(allocation_results) :
          allocation_results[a].Hall # allocation_results[b].Hall

(***************************************************************************)
(* C4: the limit of every room is min(Capacity, floor(floor(N / R) * 1.2)) *)
(* with N the size of the original pool, and no layout, stored or being    *)
(* filled, is longer than that limit or than the room's Capacity.          *)
(***************************************************************************)
C4_LayoutBound ==
    /\ pc = "fill" =>
          /\ limit = FairLimit(halls_df[h].Capacity)
          /\ Len(hall_layout) <= FairLimit(halls_df[h].Capacity)
          /\ Len(hall_layout) <= halls_df[h].Capacity
    /\ \A i \in Stored :
          /\ Len(LayoutOf(i)) <= FairLimit(halls_df[i].Capacity)
          /\ Len(LayoutOf(i)) <= halls_df[i].Capacity

\* A finished run with two rooms where the first consumed students and the
\* second is filled to a limit below its capacity.
C4_Witness ==
    /\ pc = "done"
    /\ Len(halls_df) >= 2
    /\ Len(LayoutOf(1)) >= 1
    /\ Len(LayoutOf(2)) = FairLimit(halls_df[2].Capacity)
    /\ FairLimit(halls_df[2].Capacity) >= 1
    /\ FairLimit(halls_df[2].Capacity) < halls_df[2].Capacity

\* Steps still possible, at most: the draws of the shuffle; per hall not
\* begun, one BeginHall, one EndHall and the iterations the safety bound
\* allows.
MaxCap(halls) ==
    IF halls = <<>> THEN 0
    ELSE CHOOSE c \in {halls[i].Capacity : i \in 1..Len(halls)} :
            \A i \in 1..Len(halls) : halls[i].Capacity <= c
HallRank == 3 * MaxCap(halls_df) + 4
Rank ==
    CASE pc = "shuffle" -> (Len(halls_df) + 1) * HallRank + 2
                            + Len(full_data) - Len(sampled)
      [] pc = "hall"    -> (Len(halls_df) + 1 - h) * HallRank + 1
      [] pc = "fill"    -> (Len(halls_df) - h) * HallRank + 3 * limit + 3 - seats_checked
      [] pc = "done"    -> 0

CanStep ==
    pc # "done" => ENABLED Next

(***************************************************************************)
(* C5: allocate_seats terminates: short of the return a step is always     *)
(* possible, every step strictly decreases a natural-number rank, and      *)
(* seats_checked, the number of iterations a room's fill loop has entered, *)
(* never exceeds 3 * limit.                                                *)
(***************************************************************************)
C5_Termination ==
    /\ [](CanStep)
    /\ [][/\ Rank' < Rank
          /\ Rank' \in Nat
          /\ seats_checked' <= 3 * limit']_vars

\* A finished run over a pool of at least three students, all of one
\* subject code, with a forced EMPTY cell.
C5_Witness ==
    /\ pc = "done"
    /\ Len(full_data) >= 3
    /\ \A i, j \in 1..Len(full_data) : full_data[i].Subject_Code = full_data[j].Subject_Code
    /\ \E i \in Stored : \E p \in 1..Len(LayoutOf(i)) : ~IsStudent(LayoutOf(i)[p])

(***************************************************************************)
(* C9: no state short of the return is stuck; with no rooms the result is  *)
(* an empty assignment list and an empty layout map; with no students it   *)
(* is an empty assignment list and an empty layout for every room.         *)
(***************************************************************************)
C9_Degenerate ==
    /\ CanStep
    /\ pc = "done" /\ halls_df = <<>> =>
          allocation_results = <<>> /\ DOMAIN hall_visuals = {}
    /\ pc = "done" /\ full_data = <<>> =>
          /\ allocation_results = <<>>
          /\ DOMAIN hall_visuals = {halls_df[i].Hall_Name : i \in 1..Len(halls_df)}
          /\ \A n \in DOMAIN hall_visuals : hall_visuals[n] = <<>>

\* A finished run with no students and at least two rooms.
C9_Witness ==
    /\ pc = "done"
    /\ full_data = <<>>
    /\ Len(halls_df) >= 2

(***************************************************************************)
(* C10: every iteration of a fill loop appends exactly one cell; a stored  *)
(* layout with fewer than limit cells means the pool is empty; so when     *)
(* students remain at the return, every layout has exactly limit cells.    *)
(***************************************************************************)
C10_DroppedOnlyWhenFull ==
    /\ pc = "fill" => seats_checked = Len(hall_layout) /\ filled_count = Len(hall_layout)
    /\ \A i \in Stored :
          Len(LayoutOf(i)) < FairLimit(halls_df[i].Capacity) => students_df = <<>>
    /\ pc = "done" /\ students_df # <<>> =>
          \A i \in 1..Len(halls_df) : Len(LayoutOf(i)) = FairLimit(halls_df[i].Capacity)

\* A finished run that leaves students unplaced although a room was filled.
C10_Witness ==
    /\ pc = "done"
    /\ students_df # <<>>
    /\ \E i \in Stored : Len(LayoutOf(i)) >= 2

(***************************************************************************)
(* C6: five students of one subject code and one room of capacity 5: for   *)
(* every shuffle the returned layout is student, EMPTY, student, EMPTY,    *)
(* student; three students are seated and two remain unplaced.             *)
(***************************************************************************)
C6_ForcedEmpty ==
    pc = "done" =>
        /\ Len(LayoutOf(1)) = 5
        /\ IsStudent(LayoutOf(1)[1])
        /\ LayoutOf(1)[2] = EMPTY
        /\ IsStudent(LayoutOf(1)[3])
        /\ LayoutOf(1)[4] = EMPTY
        /\ IsStudent(LayoutOf(1)[5])
        /\ Len(allocation_results) = 3
        /\ Len(students_df) = 2

\* A finished run of the scenario whose shuffle put the last student first.
C6_Witness ==
    /\ pc = "done"
    /\ full_data = ForcedPool
    /\ Len(allocation_results) >= 1
    /\ allocation_results[1].Register_No = RegNo(5)

(***************************************************************************)
(* C7: twelve students over four subject codes, two rooms of capacity 6:   *)
(* base_fill is 6, the target 7 and the limit 6, and for every shuffle     *)
(* both returned layouts have exactly 6 cells and no two students of one   *)
(* subject side by side.                                                   *)
(***************************************************************************)
C7_EndToEnd ==
    /\ pc \in {"hall", "fill", "done"} => base_fill = 6 /\ TargetFill(base_fill) = 7
    /\ pc = "fill" => limit = 6
    /\ pc = "done" =>
          \A i \in 1..Len(halls_df) :
              Len(LayoutOf(i)) = 6 /\ NoAdjacentSame(LayoutOf(i))

\* A finished run of the scenario in which the second room was given a
\* forced EMPTY cell, so that a student is left unplaced.
C7_Witness ==
    /\ pc = "done"
    /\ full_data = E2EPool
    /\ students_df # <<>>
    /\ \E p \in 1..Len(LayoutOf(2)) : ~IsStudent(LayoutOf(2)[p])


(***************************************************************************)
(* C8: a row whose Course cell is "INTERNET OF THINGS ( CST448 )" is       *)
(* parsed to Subject_Code "CST448" and Subject_Name "INTERNET OF THINGS":  *)
(* the name is the course text without the parenthesized code.             *)
(***************************************************************************)
C8_CourseParsing ==
    pc = "parsed" /\ Len(cleaned_data) = Len(df_rows) =>
        \A i \in 1..Len(df_rows) :
            df_rows[i].Course = SampleCourse =>
                /\ cleaned_data[i].Subject_Code = SampleCode
                /\ cleaned_data[i].Subject_Name = SampleName

=============================================================================
